---- MODULE Spec2Model ----
(***************************************************************************)
(* Model of the telemetry client in src/src/lib.rs: the process-wide       *)
(* DEVICE_STATUS store behind one RwLock, the setters and bandwidth        *)
(* increments called by the hosting application, the bandwidth-window      *)
(* rotation task, the reporter loop and the JSON-RPC transport.            *)
(*                                                                         *)
(* Every access to the store is `DEVICE_STATUS.write().unwrap()` or        *)
(* `.read().unwrap()` followed by synchronous code, so one critical        *)
(* section is one atomic step.  A panic inside a write section poisons     *)
(* the lock, and every later unwrap() of it panics.                        *)
(*                                                                         *)
(* Time is counted in rotation periods (the 60 seconds of lib.rs:110).     *)
(***************************************************************************)
EXTENDS Integers, Sequences, FiniteSets, TLC

\* ---------------------------------------------------------------- bounds
\* calls of start_update_status
MaxStarts == 2
\* calls made by the hosting application, other than the three identity
\* setters (whose arguments have two values each, so they need no budget)
MaxCalls == 2
\* rotation periods that elapse
MaxTime == 2
\* the largest value of the bandwidth counters' integer type; it stands for
\* u64::MAX, scaled down so that an overflow is within reach of a few calls
U64Max == 3
\* threads of the hosting application that can be inside
\* set_monitor_sync_status at the same time
NumCallers == 2

\* ------------------------------------------------------ program constants
\* vec![0; 30]
WindowLen == 30

Tasks == 1..MaxStarts
Callers == 1..NumCallers
\* String arguments: the empty string ("unset") and a set one.
Strings == {"", "a"}
\* Arguments of the numeric setters.
Numbers == {0, 1}
\* Arguments of add_upload / add_download.
AddVals == {1, U64Max}
\* Arguments of set_errors.
ErrorLists == {<<>>, <<1>>}
\* Arguments of set_monitor_sync_status: two calls that differ in both parts.
MonitorArgs == {[ty |-> 1, chains |-> <<<<1, 10>>>>], [ty |-> 2, chains |-> <<<<2, 20>>>>]}
\* Arguments of start_update_status (seconds).
Intervals == {0, 1}

VARIABLES
  device,           \* the DeviceStatus inside DEVICE_STATUS
  poisoned,         \* the RwLock is poisoned
  overflow_checks,  \* the build panics on integer overflow (debug) or wraps (release)
  now,              \* rotation periods elapsed since the process began
  starts,           \* calls of start_update_status made so far
  rot,              \* rot[i]: the rotation task spawned by the i-th start
  rep,              \* rep[i]: the reporter loop of the i-th start
  msync,            \* msync[t]: caller t between the two statements of set_monitor_sync_status
  calls,            \* calls made by the hosting application so far
  callerPanic,      \* some call of the hosting application panicked
  lastCall,         \* the most recent transport call that returned
  hist,             \* history of the bandwidth accounting (observation only)
  lock,             \* who holds the RwLock: the writer and the readers
  caller,           \* caller[c]: application thread c inside a call, step by step
  marks,            \* the rotations and tail resets each window has undergone
  seen              \* seen[i]: the marks at the latest snapshot of loop i

vars == <<device, poisoned, overflow_checks, now, starts, rot, rep, msync, calls,
          callerPanic, lastCall, hist, lock, caller, marks, seen>>

\* What the step-by-step view of the lock adds to the state.
lockvars == <<lock, caller, marks, seen>>

\* ------------------------------------------------------------ DeviceStatus
Zeros == [i \in 1..WindowLen |-> 0]

\* DeviceStatus::new(): Default, then the two windows of 30 zeros.
NewDeviceStatus ==
  [device_id |-> "", device_owner |-> "", device_version |-> "", peer_id |-> "",
   peers_count |-> 0, best_block_number |-> 0, finalized_block_number |-> 0,
   upload_bandwidth |-> Zeros, download_bandwidth |-> Zeros,
   uptime |-> 0, monitor_type |-> 0, monitor_sync_chains |-> <<>>, errors |-> <<>>]

RECURSIVE SumSeq(_)
SumSeq(s) == IF s = <<>> THEN 0 ELSE Head(s) + SumSeq(Tail(s))

\* Vec::pop: the vector without its last element (an empty one stays empty).
Pop(s) == IF s = <<>> THEN s ELSE SubSeq(s, 1, Len(s) - 1)

Last(s) == s[Len(s)]

\* A start-time step that drops the oldest element instead of the newest.
SeedTailDropHead(s) == Append(Tail(s), 0)

\* The start-time step on one window: pop(), push(0).
SeedTail(s) == Append(Pop(s), 0)

\* A rotation that drops the newest element instead of the oldest.
RotateWindowDropTail(s) == Append(Pop(s), 0)

\* The periodic step on one window: remove(0), push(0).
RotateWindow(s) == Append(Tail(s), 0)

\* old + n overflows the counter type.
Overflows(s, n) == s # <<>> /\ Last(s) + n > U64Max

\* An increment that pops the tail and pushes nothing back.
AddToTailNoPush(s, n) == Pop(s)

\* add_upload / add_download on one window when `old + n` does not panic:
\* pop the tail and push old + n, in the width of the counter.
AddToTail(s, n) ==
  IF s = <<>> THEN s ELSE Append(Pop(s), (Last(s) + n) % (U64Max + 1))

\* The gate on device_id alone.
ReadyDeviceIdOnly(d) == d.device_id # ""

\* The readiness gate of the reporter loop.
Ready(d) == d.device_id # "" /\ d.device_owner # "" /\ d.peer_id # ""

\* A snapshot that is a fresh DeviceStatus instead of a copy of the store.
CloneFresh(d) ==
  [device_id |-> "", device_owner |-> "", device_version |-> "", peer_id |-> "",
   peers_count |-> 0, best_block_number |-> 0, finalized_block_number |-> 0,
   upload_bandwidth |-> [i \in 1..WindowLen |-> 0],
   download_bandwidth |-> [i \in 1..WindowLen |-> 0],
   uptime |-> 0, monitor_type |-> 0, monitor_sync_chains |-> <<>>, errors |-> <<>>]

\* DEVICE_STATUS.read().unwrap().clone()
Clone(d) == d

\* A snapshot that drains the reported errors from the store.
StoreErrorsDrained(d) == [d EXCEPT !.errors = <<>>]

\* The store after the snapshot statement: read() gives shared access, and
\* update_status gets a reference to the clone.
StoreAfterRead(d) == d

\* ---------------------------------------------------------------- transport
\* What one HTTP exchange can come to: the send fails (connection, DNS,
\* timeout), the body does not decode as JsonRpcResponse, or an envelope
\* with `result` and `error` each present or absent.
Responses ==
  {[kind |-> "network", result |-> FALSE, error |-> FALSE],
   [kind |-> "decode", result |-> FALSE, error |-> FALSE]}
  \cup {[kind |-> "envelope", result |-> r, error |-> e] : r, e \in BOOLEAN}

\* The request update_status builds.
UpdateStatusRequest(params) ==
  [jsonrpc |-> "2.0", method |-> "update_status", params |-> <<params>>, id |-> 1]

\* An update_status that turns the collector's `error` into an Err.
UpdateStatusErrOnRpcError(resp) ==
  IF resp.kind # "envelope" \/ (resp.error /\ ~resp.result)
  THEN [ret |-> "Err", log |-> "none"]
  ELSE [ret |-> "Ok", log |-> IF resp.result THEN "debug" ELSE "none"]

\* update_status: what it returns and what it logs for a response.
UpdateStatus(resp) ==
  IF resp.kind # "envelope" THEN [ret |-> "Err", log |-> "none"]
  ELSE [ret |-> "Ok",
        log |-> IF resp.result THEN "debug" ELSE IF resp.error THEN "error" ELSE "none"]

\* get_status: the same, with the result logged at info level.
GetStatus(resp) ==
  IF resp.kind # "envelope" THEN [ret |-> "Err", log |-> "none"]
  ELSE [ret |-> "Ok",
        log |-> IF resp.result THEN "info" ELSE IF resp.error THEN "error" ELSE "none"]

NoCall == [method |-> "none", resp |-> [kind |-> "none", result |-> FALSE, error |-> FALSE],
           ret |-> "none", log |-> "none", loop_log |-> "none"]

\* ------------------------------------------------------------------- Init
NoTask == [pc |-> "none", born |-> 0, ticks |-> 0]
NoLoop == [pc |-> "none", snap |-> NewDeviceStatus, cycle |-> "none", request |-> <<>>,
           read |-> NewDeviceStatus]
NoArgs == [ty |-> 0, chains |-> <<>>]

\* The bytes handed to completed add_upload / add_download calls, and the
\* bytes the periodic rotations took out at the head.
NoHist == [upAdded |-> 0, downAdded |-> 0, upEvicted |-> 0, downEvicted |-> 0]

\* The RwLock: no guard is out.
NoHolder == [kind |-> "none", id |-> 0]
FreeLock == [writer |-> NoHolder, readers |-> {}]

\* write() returns when no guard is out, read() when no write guard is.
CanWrite(l) == l.writer = NoHolder /\ l.readers = {}
CanRead(l) == l.writer = NoHolder

NoOp == [pc |-> "idle", op |-> "none", n |-> 0, args |-> NoArgs]
NoMarks == [upRotated |-> 0, downRotated |-> 0, upReset |-> 0, downReset |-> 0]

Init ==
  /\ device = NewDeviceStatus
  /\ poisoned = FALSE
  /\ overflow_checks \in BOOLEAN
  /\ now = 0
  /\ starts = 0
  /\ rot = [i \in Tasks |-> NoTask]
  /\ rep = [i \in Tasks |-> NoLoop]
  /\ msync = [t \in Callers |-> NoArgs]
  /\ calls = 0
  /\ callerPanic = FALSE
  /\ lastCall = NoCall
  /\ hist = NoHist
  /\ lock = FreeLock
  /\ caller = [c \in Callers |-> NoOp]
  /\ marks = NoMarks
  /\ seen = [i \in Tasks |-> NoMarks]

\* ------------------------------------------------- the hosting application
\* One more call of the hosting application.
Call == calls < MaxCalls /\ calls' = calls + 1

\* `DEVICE_STATUS.write().unwrap().<field> = value`: the caller panics at the
\* unwrap() when the lock is poisoned, and assigns otherwise.
StoreWrite(new) ==
  /\ CanWrite(lock)
  /\ IF poisoned
     THEN device' = device /\ callerPanic' = TRUE
     ELSE device' = new /\ callerPanic' = callerPanic

\* What a setter leaves alone.
SetterFrame ==
  UNCHANGED <<poisoned, overflow_checks, now, starts, rot, rep, msync, lastCall, hist,
              lockvars>>

set_device_id(v) ==
  UNCHANGED calls /\ StoreWrite([device EXCEPT !.device_id = v]) /\ SetterFrame

set_device_owner(v) ==
  UNCHANGED calls /\ StoreWrite([device EXCEPT !.device_owner = v]) /\ SetterFrame

set_device_version(v) ==
  Call /\ StoreWrite([device EXCEPT !.device_version = v]) /\ SetterFrame

set_peer_id(v) ==
  UNCHANGED calls /\ StoreWrite([device EXCEPT !.peer_id = v]) /\ SetterFrame

set_peers_count(v) ==
  Call /\ StoreWrite([device EXCEPT !.peers_count = v]) /\ SetterFrame

set_best_block_number(v) ==
  Call /\ StoreWrite([device EXCEPT !.best_block_number = v]) /\ SetterFrame

set_finalized_block_number(v) ==
  Call /\ StoreWrite([device EXCEPT !.finalized_block_number = v]) /\ SetterFrame

\* A set_uptime that assigns peers_count.
set_uptime_peers_count(v) ==
  Call /\ StoreWrite([device EXCEPT !.peers_count = v]) /\ SetterFrame

set_uptime(v) ==
  Call /\ StoreWrite([device EXCEPT !.uptime = v]) /\ SetterFrame

set_errors(v) ==
  Call /\ StoreWrite([device EXCEPT !.errors = v]) /\ SetterFrame

\* set_monitor_sync_status, first statement: one acquisition of the lock, the
\* assignment of monitor_type, and the release at the end of the statement.
set_monitor_sync_status_type(t, a) ==
  /\ Call
  /\ msync[t] = NoArgs
  /\ StoreWrite([device EXCEPT !.monitor_type = a.ty])
  /\ msync' = [msync EXCEPT ![t] = IF poisoned THEN NoArgs ELSE a]
  /\ UNCHANGED <<poisoned, overflow_checks, now, starts, rot, rep, lastCall, hist>>
  /\ UNCHANGED lockvars

\* set_monitor_sync_status, second statement: a second acquisition and the
\* assignment of monitor_sync_chains.
set_monitor_sync_status_chains(t) ==
  /\ msync[t] # NoArgs
  /\ StoreWrite([device EXCEPT !.monitor_sync_chains = msync[t].chains])
  /\ msync' = [msync EXCEPT ![t] = NoArgs]
  /\ UNCHANGED <<poisoned, overflow_checks, now, starts, rot, rep, calls, lastCall, hist>>
  /\ UNCHANGED lockvars

\* add_upload(n): under the write lock, pop the tail and push old + n.  When
\* old + n overflows, a build with overflow checks panics after the pop, with
\* the lock held (which poisons it); a build without them wraps.
add_upload(n) ==
  /\ CanWrite(lock)
  /\ Call
  /\ IF poisoned
     THEN /\ callerPanic' = TRUE
          /\ UNCHANGED <<device, poisoned, hist>>
     ELSE IF overflow_checks /\ Overflows(device.upload_bandwidth, n)
     THEN /\ device' = [device EXCEPT !.upload_bandwidth = Pop(@)]
          /\ poisoned' = TRUE
          /\ callerPanic' = TRUE
          /\ UNCHANGED hist
     ELSE /\ device' = [device EXCEPT !.upload_bandwidth = AddToTail(@, n)]
          /\ hist' = [hist EXCEPT !.upAdded = @ + n]
          /\ UNCHANGED <<poisoned, callerPanic>>
  /\ UNCHANGED <<overflow_checks, now, starts, rot, rep, msync, lastCall>>
  /\ UNCHANGED lockvars

add_download(n) ==
  /\ CanWrite(lock)
  /\ Call
  /\ IF poisoned
     THEN /\ callerPanic' = TRUE
          /\ UNCHANGED <<device, poisoned, hist>>
     ELSE IF overflow_checks /\ Overflows(device.download_bandwidth, n)
     THEN /\ device' = [device EXCEPT !.download_bandwidth = Pop(@)]
          /\ poisoned' = TRUE
          /\ callerPanic' = TRUE
          /\ UNCHANGED hist
     ELSE /\ device' = [device EXCEPT !.download_bandwidth = AddToTail(@, n)]
          /\ hist' = [hist EXCEPT !.downAdded = @ + n]
          /\ UNCHANGED <<poisoned, callerPanic>>
  /\ UNCHANGED <<overflow_checks, now, starts, rot, rep, msync, lastCall>>
  /\ UNCHANGED lockvars

\* get_status, called by a diagnostic caller: one exchange, and its outcome.
get_status(resp) ==
  /\ Call
  /\ lastCall' = [method |-> "get_status", resp |-> resp, ret |-> GetStatus(resp).ret,
                  log |-> GetStatus(resp).log, loop_log |-> "none"]
  /\ UNCHANGED <<device, poisoned, overflow_checks, now, starts, rot, rep, msync,
                 callerPanic, hist>>
  /\ UNCHANGED lockvars

\* ------------------------------------------------------ start_update_status
\* start_calculate_bandwidth's first block on the store: both tails reseeded
\* under one write guard.
SeedTails(d) ==
  [d EXCEPT !.upload_bandwidth = SeedTail(@), !.download_bandwidth = SeedTail(@)]

\* start_update_status(url, interval): start_calculate_bandwidth (reseed the
\* tails, spawn the rotation task), then tokio::time::interval, which panics
\* for a zero period, then the loop.  With the lock poisoned the first
\* unwrap() panics and nothing is spawned.
start_update_status(interval) ==
  /\ CanWrite(lock)
  /\ starts < MaxStarts
  /\ starts' = starts + 1
  /\ IF poisoned
     THEN /\ rep' = [rep EXCEPT ![starts + 1].pc = "aborted"]
          /\ UNCHANGED <<device, rot, marks>>
     ELSE /\ device' = SeedTails(device)
          /\ marks' = [marks EXCEPT !.upReset = @ + 1, !.downReset = @ + 1]
          /\ rot' = [rot EXCEPT ![starts + 1] = [pc |-> "tick", born |-> now, ticks |-> 0]]
          /\ rep' = [rep EXCEPT ![starts + 1].pc = IF interval = 0 THEN "aborted" ELSE "tick"]
  /\ UNCHANGED <<poisoned, overflow_checks, now, msync, calls, callerPanic, lastCall, hist,
                 lock, caller, seen>>

\* ------------------------------------------------------- the rotation task
\* The periodic step on the store: both windows rotated under one write guard.
RotateBoth(d) ==
  [d EXCEPT !.upload_bandwidth = RotateWindow(@), !.download_bandwidth = RotateWindow(@)]

\* Ticks of the task's interval that have become due: tokio's interval
\* completes its first tick at once and one more every period after it.
TicksDue(i) == (now - rot[i].born) + 1

\* One iteration of the spawned loop: interval.tick().await returns, then the
\* rotation of both windows under the write lock (a panic when it is poisoned).
rotation_tick(i) ==
  /\ CanWrite(lock)
  /\ rot[i].pc = "tick"
  /\ rot[i].ticks < TicksDue(i)
  /\ IF poisoned
     THEN /\ rot' = [rot EXCEPT ![i].pc = "panicked"]
          /\ UNCHANGED <<device, hist, marks>>
     ELSE /\ device' = RotateBoth(device)
          /\ marks' = [marks EXCEPT !.upRotated = @ + 1, !.downRotated = @ + 1]
          /\ rot' = [rot EXCEPT ![i].ticks = @ + 1]
          /\ hist' = [hist EXCEPT !.upEvicted = @ + Head(device.upload_bandwidth),
                                  !.downEvicted = @ + Head(device.download_bandwidth)]
  /\ UNCHANGED <<poisoned, overflow_checks, now, starts, rep, msync, calls, callerPanic,
                 lastCall, lock, caller, seen>>

\* ------------------------------------------------------- the reporter loop
\* A loop that takes its next snapshot while its request is still in flight.
AwaitingTickOrResponse(l) == l.pc \in {"tick", "http"}

\* The loop is suspended in interval.tick().await: the body is one sequence
\* of awaits, so the tick is polled only after update_status has returned.
AwaitingTick(l) == l.pc = "tick"

\* One cycle up to its next suspension: interval.tick().await returns, the
\* snapshot is cloned under the read lock (a panic when it is poisoned), the
\* gate is evaluated, and update_status is entered or the cycle is skipped.
report_tick(i) ==
  /\ CanRead(lock)
  /\ AwaitingTick(rep[i])
  /\ IF poisoned
     THEN rep' = [rep EXCEPT ![i].pc = "panicked"] /\ seen' = seen
     ELSE LET d == Clone(device) IN
          /\ rep' = [rep EXCEPT ![i] =
                       IF Ready(d)
                       THEN [pc |-> "http", snap |-> d, cycle |-> "sent",
                             request |-> <<UpdateStatusRequest(d)>>, read |-> device]
                       ELSE [pc |-> "tick", snap |-> d, cycle |-> "skipped",
                             request |-> <<>>, read |-> device]]
          /\ seen' = [seen EXCEPT ![i] = marks]
  /\ device' = StoreAfterRead(device)
  /\ UNCHANGED <<poisoned, overflow_checks, now, starts, rot, msync, calls,
                 callerPanic, lastCall, hist, lock, caller, marks>>

\* update_status returns to the loop: an Err is logged, and the loop goes on
\* to its next tick either way.
http_return(i, resp) ==
  /\ rep[i].pc = "http"
  /\ lastCall' = [method |-> "update_status", resp |-> resp, ret |-> UpdateStatus(resp).ret,
                  log |-> UpdateStatus(resp).log,
                  loop_log |-> IF UpdateStatus(resp).ret = "Err" THEN "error" ELSE "none"]
  /\ rep' = [rep EXCEPT ![i].pc = "tick", ![i].request = <<>>]
  /\ UNCHANGED <<device, poisoned, overflow_checks, now, starts, rot, msync, calls,
                 callerPanic, hist>>
  /\ UNCHANGED lockvars

\* -------------------------------------------------------------------- time
\* One more rotation period has elapsed.
time_passes ==
  /\ now < MaxTime
  /\ now' = now + 1
  /\ UNCHANGED <<device, poisoned, overflow_checks, starts, rot, rep, msync, calls,
                 callerPanic, lastCall, hist>>
  /\ UNCHANGED lockvars

\* -------------------------------------------- the store lock, step by step
\* The same operations with every acquisition, critical section and release
\* of DEVICE_STATUS's RwLock a step of its own: a thread asks for the lock,
\* gets it when it can be granted, and gives it back where its guard is dropped.
Caller(c) == [kind |-> "caller", id |-> c]
Rotator(i) == [kind |-> "rotator", id |-> i]
Reporter(i) == [kind |-> "reporter", id |-> i]

WriteGuard(l, h) == [l EXCEPT !.writer = h]
ReadGuard(l, h) == [l EXCEPT !.readers = @ \cup {h}]
Dropped(l, h) ==
  [writer |-> IF l.writer = h THEN NoHolder ELSE l.writer, readers |-> l.readers \ {h}]

\* A first statement of set_monitor_sync_status whose guard lives on into the
\* second statement.
MonitorTypeGuardKept(l, h) == l

\* `DEVICE_STATUS.write().unwrap().monitor_type = ty;`: the guard is a
\* temporary, dropped at the end of the statement.
MonitorTypeGuard(l, h) == Dropped(l, h)

\* A snapshot whose read guard is bound to a variable of the loop body.
SnapshotGuardKept(l, h) == l

\* `let params = DEVICE_STATUS.read().unwrap().clone();`: the read guard is a
\* temporary, dropped at the end of the statement.
SnapshotGuard(l, h) == Dropped(l, h)

\* A rotation with one guard for each window.
RotationGuardPerWindow(l, h) == Dropped(l, h)

\* `let mut status = DEVICE_STATUS.write().unwrap();` in the rotation block:
\* the guard lives to the end of the block, across both windows.
RotationGuard(l, h) == l

\* The application thread c calls add_upload(n) / set_monitor_sync_status.
call_add_upload(c, n) ==
  /\ Call
  /\ caller[c].pc = "idle"
  /\ caller' = [caller EXCEPT ![c] = [pc |-> "want", op |-> "add_upload", n |-> n,
                                      args |-> NoArgs]]
  /\ UNCHANGED <<device, poisoned, overflow_checks, now, starts, rot, rep, msync,
                 callerPanic, lastCall, hist, lock, marks, seen>>

call_set_monitor_sync_status(c, a) ==
  /\ Call
  /\ caller[c].pc = "idle"
  /\ caller' = [caller EXCEPT ![c] = [pc |-> "want", op |-> "monitor_type", n |-> 0,
                                      args |-> a]]
  /\ UNCHANGED <<device, poisoned, overflow_checks, now, starts, rot, rep, msync,
                 callerPanic, lastCall, hist, lock, marks, seen>>

\* write() is granted; unwrap() panics, dropping the guard, when the lock is
\* poisoned.
caller_acquire(c) ==
  /\ caller[c].pc = "want"
  /\ CanWrite(lock)
  /\ IF poisoned
     THEN /\ caller' = [caller EXCEPT ![c].pc = "panicked"]
          /\ callerPanic' = TRUE
          /\ lock' = lock
     ELSE /\ caller' = [caller EXCEPT ![c].pc = "holding"]
          /\ callerPanic' = callerPanic
          /\ lock' = WriteGuard(lock, Caller(c))
  /\ UNCHANGED <<device, poisoned, overflow_checks, now, starts, rot, rep, msync, calls,
                 lastCall, hist, marks, seen>>

\* The critical section of the statement and the drop of its guard.
caller_write(c) ==
  /\ caller[c].pc = "holding"
  /\ CASE caller[c].op = "add_upload" ->
            IF overflow_checks /\ Overflows(device.upload_bandwidth, caller[c].n)
            THEN /\ device' = [device EXCEPT !.upload_bandwidth = Pop(@)]
                 /\ poisoned' = TRUE
                 /\ callerPanic' = TRUE
                 /\ caller' = [caller EXCEPT ![c].pc = "panicked"]
                 /\ lock' = Dropped(lock, Caller(c))
                 /\ hist' = hist
            ELSE /\ device' = [device EXCEPT !.upload_bandwidth = AddToTail(@, caller[c].n)]
                 /\ hist' = [hist EXCEPT !.upAdded = @ + caller[c].n]
                 /\ caller' = [caller EXCEPT ![c] = NoOp]
                 /\ lock' = Dropped(lock, Caller(c))
                 /\ UNCHANGED <<poisoned, callerPanic>>
       [] caller[c].op = "monitor_type" ->
            /\ device' = [device EXCEPT !.monitor_type = caller[c].args.ty]
            /\ caller' = [caller EXCEPT ![c].pc = "want", ![c].op = "monitor_chains"]
            /\ lock' = MonitorTypeGuard(lock, Caller(c))
            /\ UNCHANGED <<poisoned, callerPanic, hist>>
       [] caller[c].op = "monitor_chains" ->
            /\ device' = [device EXCEPT !.monitor_sync_chains = caller[c].args.chains]
            /\ caller' = [caller EXCEPT ![c] = NoOp]
            /\ lock' = Dropped(lock, Caller(c))
            /\ UNCHANGED <<poisoned, callerPanic, hist>>
  /\ UNCHANGED <<overflow_checks, now, starts, rot, rep, msync, calls, lastCall, marks, seen>>

\* start_update_status (with a non-zero interval) is called and asks for the
\* write lock of start_calculate_bandwidth's first block.
start_called ==
  /\ starts < MaxStarts
  /\ starts' = starts + 1
  /\ rep' = [rep EXCEPT ![starts + 1].pc = "want_seed"]
  /\ UNCHANGED <<device, poisoned, overflow_checks, now, rot, msync, calls, callerPanic,
                 lastCall, hist, lock, caller, marks, seen>>

start_acquire(i) ==
  /\ rep[i].pc = "want_seed"
  /\ CanWrite(lock)
  /\ IF poisoned
     THEN rep' = [rep EXCEPT ![i].pc = "aborted"] /\ lock' = lock
     ELSE rep' = [rep EXCEPT ![i].pc = "seed_upload"] /\ lock' = WriteGuard(lock, Reporter(i))
  /\ UNCHANGED <<device, poisoned, overflow_checks, now, starts, rot, msync, calls,
                 callerPanic, lastCall, hist, caller, marks, seen>>

\* status.upload_bandwidth.pop(); status.upload_bandwidth.push(0);
start_seed_upload(i) ==
  /\ rep[i].pc = "seed_upload"
  /\ device' = [device EXCEPT !.upload_bandwidth = SeedTail(@)]
  /\ marks' = [marks EXCEPT !.upReset = @ + 1]
  /\ rep' = [rep EXCEPT ![i].pc = "seed_download"]
  /\ UNCHANGED <<poisoned, overflow_checks, now, starts, rot, msync, calls, callerPanic,
                 lastCall, hist, lock, caller, seen>>

\* The same on download_bandwidth, the end of the block, the spawn of the
\* rotation task, and the reporter loop's first tick().await.
start_seed_download(i) ==
  /\ rep[i].pc = "seed_download"
  /\ device' = [device EXCEPT !.download_bandwidth = SeedTail(@)]
  /\ marks' = [marks EXCEPT !.downReset = @ + 1]
  /\ lock' = Dropped(lock, Reporter(i))
  /\ rot' = [rot EXCEPT ![i] = [pc |-> "tick", born |-> now, ticks |-> 0]]
  /\ rep' = [rep EXCEPT ![i].pc = "tick"]
  /\ UNCHANGED <<poisoned, overflow_checks, now, starts, msync, calls, callerPanic,
                 lastCall, hist, caller, seen>>

\* The rotation task's tick().await returns and it asks for the write lock.
rotator_wakes(i) ==
  /\ rot[i].pc = "tick"
  /\ rot[i].ticks < TicksDue(i)
  /\ rot' = [rot EXCEPT ![i].pc = "want"]
  /\ UNCHANGED <<device, poisoned, overflow_checks, now, starts, rep, msync, calls,
                 callerPanic, lastCall, hist, lockvars>>

rotator_acquire(i) ==
  /\ rot[i].pc = "want"
  /\ CanWrite(lock)
  /\ IF poisoned
     THEN rot' = [rot EXCEPT ![i].pc = "panicked"] /\ lock' = lock
     ELSE rot' = [rot EXCEPT ![i].pc = "upload"] /\ lock' = WriteGuard(lock, Rotator(i))
  /\ UNCHANGED <<device, poisoned, overflow_checks, now, starts, rep, msync, calls,
                 callerPanic, lastCall, hist, caller, marks, seen>>

\* status.upload_bandwidth.remove(0); status.upload_bandwidth.push(0);
rotator_upload(i) ==
  /\ rot[i].pc = "upload"
  /\ device' = [device EXCEPT !.upload_bandwidth = RotateWindow(@)]
  /\ marks' = [marks EXCEPT !.upRotated = @ + 1]
  /\ hist' = [hist EXCEPT !.upEvicted = @ + Head(device.upload_bandwidth)]
  /\ lock' = RotationGuard(lock, Rotator(i))
  /\ rot' = [rot EXCEPT ![i].pc = "download"]
  /\ UNCHANGED <<poisoned, overflow_checks, now, starts, rep, msync, calls, callerPanic,
                 lastCall, caller, seen>>

\* The same on download_bandwidth, and the end of the block.
rotator_download(i) ==
  /\ rot[i].pc = "download"
  /\ device' = [device EXCEPT !.download_bandwidth = RotateWindow(@)]
  /\ marks' = [marks EXCEPT !.downRotated = @ + 1]
  /\ hist' = [hist EXCEPT !.downEvicted = @ + Head(device.download_bandwidth)]
  /\ lock' = Dropped(lock, Rotator(i))
  /\ rot' = [rot EXCEPT ![i].pc = "tick", ![i].ticks = @ + 1]
  /\ UNCHANGED <<poisoned, overflow_checks, now, starts, rep, msync, calls, callerPanic,
                 lastCall, caller, seen>>

\* The reporter loop's tick().await returns and it asks for the read lock.
reporter_wakes(i) ==
  /\ AwaitingTick(rep[i])
  /\ rep' = [rep EXCEPT ![i].pc = "want_read"]
  /\ UNCHANGED <<device, poisoned, overflow_checks, now, starts, rot, msync, calls,
                 callerPanic, lastCall, hist, lockvars>>

reporter_acquire(i) ==
  /\ rep[i].pc = "want_read"
  /\ CanRead(lock)
  /\ IF poisoned
     THEN rep' = [rep EXCEPT ![i].pc = "panicked"] /\ lock' = lock
     ELSE rep' = [rep EXCEPT ![i].pc = "reading"] /\ lock' = ReadGuard(lock, Reporter(i))
  /\ UNCHANGED <<device, poisoned, overflow_checks, now, starts, rot, msync, calls,
                 callerPanic, lastCall, hist, caller, marks, seen>>

\* The clone, the end of the statement, and the gate: update_status is
\* entered or the cycle is skipped.
reporter_clone(i) ==
  /\ rep[i].pc = "reading"
  /\ LET d == Clone(device) IN
     rep' = [rep EXCEPT ![i] =
               IF Ready(d)
               THEN [pc |-> "http", snap |-> d, cycle |-> "sent",
                     request |-> <<UpdateStatusRequest(d)>>, read |-> device]
               ELSE [pc |-> "tick", snap |-> d, cycle |-> "skipped",
                     request |-> <<>>, read |-> device]]
  /\ seen' = [seen EXCEPT ![i] = marks]
  /\ device' = StoreAfterRead(device)
  /\ lock' = SnapshotGuard(lock, Reporter(i))
  /\ UNCHANGED <<poisoned, overflow_checks, now, starts, rot, msync, calls, callerPanic,
                 lastCall, hist, caller, marks>>

Next ==
  \/ \E v \in Strings : set_device_id(v)
  \/ \E v \in Strings : set_device_owner(v)
  \/ \E v \in Strings : set_device_version(v)
  \/ \E v \in Strings : set_peer_id(v)
  \/ \E v \in Numbers : set_peers_count(v)
  \/ \E v \in Numbers : set_best_block_number(v)
  \/ \E v \in Numbers : set_finalized_block_number(v)
  \/ \E v \in Numbers : set_uptime(v)
  \/ \E v \in ErrorLists : set_errors(v)
  \/ \E t \in Callers, a \in MonitorArgs : set_monitor_sync_status_type(t, a)
  \/ \E t \in Callers : set_monitor_sync_status_chains(t)
  \/ \E n \in AddVals : add_upload(n)
  \/ \E n \in AddVals : add_download(n)
  \/ \E resp \in Responses : get_status(resp)
  \/ \E interval \in Intervals : start_update_status(interval)
  \/ \E i \in Tasks : rotation_tick(i)
  \/ \E i \in Tasks : report_tick(i)
  \/ \E i \in Tasks, resp \in Responses : http_return(i, resp)
  \/ time_passes
  \/ \E c \in Callers, n \in AddVals : call_add_upload(c, n)
  \/ \E c \in Callers, a \in MonitorArgs : call_set_monitor_sync_status(c, a)
  \/ \E c \in Callers : caller_acquire(c)
  \/ \E c \in Callers : caller_write(c)
  \/ start_called
  \/ \E i \in Tasks : start_acquire(i)
  \/ \E i \in Tasks : start_seed_upload(i)
  \/ \E i \in Tasks : start_seed_download(i)
  \/ \E i \in Tasks : rotator_wakes(i)
  \/ \E i \in Tasks : rotator_acquire(i)
  \/ \E i \in Tasks : rotator_upload(i)
  \/ \E i \in Tasks : rotator_download(i)
  \/ \E i \in Tasks : reporter_wakes(i)
  \/ \E i \in Tasks : reporter_acquire(i)
  \/ \E i \in Tasks : reporter_clone(i)

Spec == Init /\ [][Next]_vars

\* ---------------------------------------------- the program, part by part
\* The whole program's state space is the product of its parts'.  Each of the
\* specifications below lets the hosting application use one part of the
\* interface, with start_update_status called once (its documented use).
StartOnce == starts = 0 /\ \E interval \in Intervals : start_update_status(interval)

\* The bandwidth window: increments, the start-time step, the rotations and
\* the passing of time, with the reporter loop taking its snapshots.
NextWindow ==
  \/ \E n \in AddVals : add_upload(n)
  \/ \E n \in AddVals : add_download(n)
  \/ \E v \in Numbers : set_peers_count(v)
  \/ StartOnce
  \/ \E i \in Tasks : rotation_tick(i)
  \/ \E i \in Tasks : report_tick(i)
  \/ time_passes

SpecWindow == Init /\ [][NextWindow]_vars

\* The reporter: the setters, the loop with its gate, and the transport.
NextReport ==
  \/ \E v \in Strings : set_device_id(v)
  \/ \E v \in Strings : set_device_owner(v)
  \/ \E v \in Strings : set_device_version(v)
  \/ \E v \in Strings : set_peer_id(v)
  \/ \E v \in Numbers : set_peers_count(v)
  \/ \E v \in Numbers : set_best_block_number(v)
  \/ \E v \in Numbers : set_finalized_block_number(v)
  \/ \E v \in Numbers : set_uptime(v)
  \/ \E v \in ErrorLists : set_errors(v)
  \/ \E resp \in Responses : get_status(resp)
  \/ StartOnce
  \/ \E i \in Tasks : report_tick(i)
  \/ \E i \in Tasks, resp \in Responses : http_return(i, resp)

SpecReport == Init /\ [][NextReport]_vars

\* Reports in flight while the window is written: the identity setters, the
\* upload increments, the first rotation, the loop and the transport.
NextTraffic ==
  \/ \E v \in Strings : set_device_id(v)
  \/ \E v \in Strings : set_device_owner(v)
  \/ \E v \in Strings : set_peer_id(v)
  \/ \E n \in AddVals : add_upload(n)
  \/ StartOnce
  \/ \E i \in Tasks : rotation_tick(i)
  \/ \E i \in Tasks : report_tick(i)
  \/ \E i \in Tasks, resp \in Responses : http_return(i, resp)

SpecTraffic == Init /\ [][NextTraffic]_vars

\* set_monitor_sync_status called from several threads while the reporter
\* loop takes its snapshots.
NextMonitor ==
  \/ \E t \in Callers, a \in MonitorArgs : set_monitor_sync_status_type(t, a)
  \/ \E t \in Callers : set_monitor_sync_status_chains(t)
  \/ StartOnce
  \/ \E i \in Tasks : report_tick(i)

SpecMonitor == Init /\ [][NextMonitor]_vars

\* start_update_status called again while the window is running: the starts,
\* the upload increments, and the first rotation of every spawned task.
NextRestart ==
  \/ \E interval \in Intervals : start_update_status(interval)
  \/ \E n \in AddVals : add_upload(n)
  \/ \E i \in Tasks : rotation_tick(i)

SpecRestart == Init /\ [][NextRestart]_vars

\* The steps every use of the lock is made of.
LockSteps ==
  \/ \E c \in Callers : caller_acquire(c)
  \/ \E c \in Callers : caller_write(c)
  \/ starts = 0 /\ start_called
  \/ \E i \in Tasks : start_acquire(i)
  \/ \E i \in Tasks : start_seed_upload(i)
  \/ \E i \in Tasks : start_seed_download(i)
  \/ \E i \in Tasks : rotator_wakes(i)
  \/ \E i \in Tasks : rotator_acquire(i)
  \/ \E i \in Tasks : rotator_upload(i)
  \/ \E i \in Tasks : rotator_download(i)
  \/ \E i \in Tasks : reporter_wakes(i)
  \/ \E i \in Tasks : reporter_acquire(i)
  \/ \E i \in Tasks : reporter_clone(i)

\* An exchange that ends with the client's 30 s timeout.
TimedOut == [kind |-> "network", result |-> FALSE, error |-> FALSE]

\* The store lock while reports are in flight: the node's identity set at
\* startup, add_upload from several threads, the start, the rotation task and
\* the reporter loop step by step, and update_status ending by its timeout.
NextLock ==
  \/ \E v \in Strings \ {""} : set_device_id(v)
  \/ \E v \in Strings \ {""} : set_device_owner(v)
  \/ \E v \in Strings \ {""} : set_peer_id(v)
  \/ \E c \in Callers, n \in AddVals : call_add_upload(c, n)
  \/ LockSteps
  \/ \E i \in Tasks : http_return(i, TimedOut)

SpecLock == Init /\ [][NextLock]_vars

\* Contention for the store lock: the two statements of
\* set_monitor_sync_status from several threads, against the start, the
\* rotation task and the reporter loop.
NextContend ==
  \/ \E c \in Callers, a \in MonitorArgs : call_set_monitor_sync_status(c, a)
  \/ LockSteps

SpecContend == Init /\ [][NextContend]_vars

WriteAcquire ==
  \/ \E c \in Callers : caller_acquire(c)
  \/ \E i \in Tasks : start_acquire(i)
  \/ \E i \in Tasks : rotator_acquire(i)

ReadAcquire == \E i \in Tasks : reporter_acquire(i)

CriticalSection ==
  \/ \E c \in Callers : caller_write(c)
  \/ \E i \in Tasks : start_seed_upload(i) \/ start_seed_download(i)
  \/ \E i \in Tasks : rotator_upload(i) \/ rotator_download(i)
  \/ \E i \in Tasks : reporter_clone(i)

\* Fair scheduling: a thread inside a critical section runs on to the end of
\* it; a read request that stays grantable is granted; and write requests that
\* can be granted again and again are not passed over for ever.
FairContend ==
  /\ SpecContend
  /\ WF_vars(CriticalSection)
  /\ WF_vars(ReadAcquire)
  /\ SF_vars(WriteAcquire)

\* The setters: every single-field setter and add_upload, with the reporter
\* loop taking its snapshots.
NextSetters ==
  \/ \E v \in Strings : set_device_id(v)
  \/ \E v \in Strings : set_device_owner(v)
  \/ \E v \in Strings : set_device_version(v)
  \/ \E v \in Strings : set_peer_id(v)
  \/ \E v \in Numbers : set_peers_count(v)
  \/ \E v \in Numbers : set_best_block_number(v)
  \/ \E v \in Numbers : set_finalized_block_number(v)
  \/ \E v \in Numbers : set_uptime(v)
  \/ \E v \in ErrorLists : set_errors(v)
  \/ \E n \in AddVals : add_upload(n)
  \/ StartOnce
  \/ \E i \in Tasks : report_tick(i)

SpecSetters == Init /\ [][NextSetters]_vars

\* ============================================================== properties
Up == device.upload_bandwidth
Down == device.download_bandwidth

\* Head-evicting rotations applied so far, over all rotation tasks.
Evictions == SumSeq([i \in Tasks |-> rot[i].ticks])

Spawned == {i \in Tasks : rot[i].pc # "none"}

\* Full rotation periods elapsed since the first rotation task was spawned.
Elapsed == now - rot[CHOOSE i \in Spawned : \A j \in Spawned : i <= j].born

\* C1: every completed add_upload(n) / add_download(n) is counted exactly
\* once: the bytes added equal the bytes in the current buckets plus the bytes
\* the periodic rotations evicted at the head.  (Stated for the runs in which
\* the bytes added fit the counter type, so that no bucket has overflowed.)
C1_EveryIncrementCountedOnce ==
  (~poisoned /\ hist.upAdded <= U64Max /\ hist.downAdded <= U64Max) =>
    /\ hist.upAdded = SumSeq(Up) + hist.upEvicted
    /\ hist.downAdded = SumSeq(Down) + hist.downEvicted

\* C2: every snapshot the reporter loop takes has an upload window and a
\* download window of exactly 30 elements.
C2_SnapshotLengths ==
  \A i \in Tasks :
    rep[i].cycle # "none" =>
      /\ Len(rep[i].snap.upload_bandwidth) = WindowLen
      /\ Len(rep[i].snap.download_bandwidth) = WindowLen

\* A snapshot taken after an increment, the start, two rotations and a setter:
\* the increment has moved two places towards the head.
C2_Witness ==
  \E i \in Tasks :
    /\ rep[i].cycle # "none"
    /\ rot[i].ticks >= 2
    /\ rep[i].snap.upload_bandwidth[WindowLen - 2] > 0
    /\ rep[i].snap.peers_count = 1

\* C3: in every cycle update_status is entered if and only if device_id,
\* device_owner and peer_id of that cycle's snapshot are all non-empty, and the
\* request in flight carries exactly that snapshot.
C3_GateDecidesReport ==
  \A i \in Tasks :
    rep[i].cycle # "none" =>
      /\ (rep[i].cycle = "sent") <=>
           (/\ rep[i].snap.device_id # ""
            /\ rep[i].snap.device_owner # ""
            /\ rep[i].snap.peer_id # "")
      /\ rep[i].pc = "http" =>
           /\ rep[i].cycle = "sent"
           /\ rep[i].request =
                <<[jsonrpc |-> "2.0", method |-> "update_status",
                   params |-> <<rep[i].snap>>, id |-> 1]>>
      /\ rep[i].pc # "http" => rep[i].request = <<>>

\* A cycle that is skipped after an earlier cycle reported: the gate is not
\* latched, and it is the empty peer_id alone that closes it.
C3_Witness ==
  \E i \in Tasks :
    /\ rep[i].cycle = "skipped"
    /\ lastCall.method = "update_status"
    /\ rep[i].snap.device_id # ""
    /\ rep[i].snap.device_owner # ""
    /\ rep[i].snap.peer_id = ""
    /\ rep[i].snap.peers_count = 1

\* C4: once started, the window has been rotated at the head exactly once
\* per full 60-second interval elapsed since the start: never more often,
\* and as often whenever no rotation task has a tick left to take.
C4_OneRotationPerInterval ==
  Spawned # {} =>
    /\ Evictions <= Elapsed
    /\ (\A i \in Spawned : rot[i].pc = "tick" /\ rot[i].ticks >= TicksDue(i))
         => Evictions = Elapsed

\* The window t is the window s with n added to its tail.
TailPlus(s, t, n) ==
  /\ Len(t) = Len(s)
  /\ t[Len(s)] = s[Len(s)] + n
  /\ \A k \in 1..(Len(s) - 1) : t[k] = s[k]

\* C5: add_upload(n) adds n to the tail of upload_bandwidth and changes no
\* other element and nothing of download_bandwidth; add_download likewise.
C5_AddsAccumulateInTail ==
  [][\A n \in AddVals :
       /\ add_upload(n) => TailPlus(Up, Up', n) /\ Down' = Down
       /\ add_download(n) => TailPlus(Down, Down', n) /\ Up' = Up]_vars

\* The window t is the window s moved one place towards the head, with a
\* fresh zero at the tail.
Shifted(s, t) ==
  /\ Len(s) = WindowLen
  /\ Len(t) = WindowLen
  /\ \A k \in 2..WindowLen : t[k - 1] = s[k]
  /\ t[WindowLen] = 0

\* C6: a periodic rotation moves every element of both windows one place
\* towards the head, drops the head and puts a zero at the tail, keeping the
\* length at 30; and a window nothing was added to stays all zero.
C6_RotationShifts ==
  /\ [][\A i \in Tasks :
          rot'[i].ticks = rot[i].ticks + 1 => Shifted(Up, Up') /\ Shifted(Down, Down')]_vars
  /\ [](/\ hist.upAdded = 0 => Up = [k \in 1..WindowLen |-> 0]
        /\ hist.downAdded = 0 => Down = [k \in 1..WindowLen |-> 0])

\* Three rotations: an upload increment of the first interval has moved to
\* the third place from the tail, and the download window is still all zero.
C6_Witness ==
  /\ \E i \in Tasks : rot[i].ticks = 3
  /\ Up[WindowLen - 2] > 0
  /\ hist.downAdded = 0
  /\ Down = [k \in 1..WindowLen |-> 0]

\* C7: the reporter loop has no terminal state: after an update_status call
\* that returned an error it is waiting for a tick or in an exchange again.
C7_LoopNeverTerminates ==
  (lastCall.method = "update_status" /\ lastCall.ret = "Err") =>
    \A i \in Tasks : rep[i].pc \in {"none", "aborted", "tick", "http"}

\* C8: update_status and get_status return an error exactly when the exchange
\* failed at network level or the body did not decode; every decoded envelope
\* is a success, which the reporter loop does not log as a failure.
C8_ErrorIffTransportFailure ==
  lastCall.method # "none" =>
    /\ (lastCall.ret = "Err") <=> (lastCall.resp.kind \in {"network", "decode"})
    /\ (lastCall.ret = "Ok") <=> (lastCall.resp.kind = "envelope")
    /\ lastCall.ret = "Ok" => lastCall.loop_log = "none"
    /\ (lastCall.resp.kind = "envelope" /\ lastCall.resp.error /\ ~lastCall.resp.result)
         => lastCall.log = "error"

\* update_status has returned success for an envelope that carries the
\* collector's error and no result.
C8_Witness ==
  /\ lastCall.method = "update_status"
  /\ lastCall.resp.kind = "envelope"
  /\ lastCall.resp.error
  /\ ~lastCall.resp.result
  /\ lastCall.ret = "Ok"

\* C9: a snapshot is the store's content at the moment of the read, and while
\* its exchange is in flight no write to the store changes it or the request
\* that carries it.
C9_SnapshotIsACopy ==
  /\ [][\A i \in Tasks :
          (rep[i].pc = "http" /\ rep'[i].pc = "http") =>
             /\ rep'[i].snap = rep[i].snap
             /\ rep'[i].request = rep[i].request]_vars
  /\ [](\A i \in Tasks :
          /\ rep[i].cycle # "none" => rep[i].snap = rep[i].read
          /\ rep[i].pc = "http" => rep[i].request[1].params = <<rep[i].read>>)

\* An exchange in flight whose snapshot was taken before a rotation, an
\* increment and a setter call that the store now shows.
C9_Witness ==
  \E i \in Tasks :
    /\ rep[i].pc = "http"
    /\ rot[i].ticks = 1
    /\ rep[i].snap.upload_bandwidth[WindowLen] > 0
    /\ Up[WindowLen - 1] = rep[i].snap.upload_bandwidth[WindowLen]
    /\ Up[WindowLen] > 0
    /\ device.peer_id = ""

\* The monitor type and chains of d come from one call (or are the initial ones).
FromOneCall(d) ==
  \/ d.monitor_type = 0 /\ d.monitor_sync_chains = <<>>
  \/ \E a \in MonitorArgs : d.monitor_type = a.ty /\ d.monitor_sync_chains = a.chains

\* C10: set_monitor_sync_status is atomic: no snapshot shows the type of one
\* call with the chains of another (or of none), and when no call is in
\* progress the store holds the type and chains of one call.
C10_MonitorStatusAtomic ==
  /\ \A i \in Tasks : rep[i].cycle # "none" => FromOneCall(rep[i].snap)
  /\ (\A t \in Callers : msync[t] = NoArgs) => FromOneCall(device)

\* The window t is the window s with its tail set to zero and nothing else
\* changed.
TailReset(s, t) ==
  /\ Len(s) = WindowLen
  /\ Len(t) = WindowLen
  /\ \A k \in 1..(WindowLen - 1) : t[k] = s[k]
  /\ t[WindowLen] = 0

\* C11: the start-time step of start_update_status changes only the tail of
\* both windows: elements 0..28 keep their values and places, element 29
\* becomes 0, the length stays 30, and nothing is evicted at the head.
C11_StartResetsOnlyTail ==
  [][(starts' = starts + 1 /\ ~poisoned) =>
       /\ TailReset(Up, Up')
       /\ TailReset(Down, Down')
       /\ hist' = hist]_vars

\* A second start on a running window: the bytes of an earlier interval are
\* still next to the tail, and the bytes that were in the tail are gone.
C11_Witness ==
  /\ starts = 2
  /\ Up[WindowLen - 1] > 0
  /\ Up[WindowLen] = 0
  /\ hist.upAdded > Up[WindowLen - 1]
  /\ hist.upEvicted = 0

\* C12: add_upload(n) / add_download(n) never fails, whatever n and the tail
\* are: no call panics, both windows keep 30 elements and the store stays
\* usable (its lock is never poisoned).
C12_AddNeverFails ==
  /\ ~callerPanic
  /\ ~poisoned
  /\ Len(Up) = WindowLen
  /\ Len(Down) = WindowLen

\* C18: however often start_update_status is called, at most one rotation
\* task exists at any time.
C18_OneRotationTask ==
  Cardinality(Spawned) <= 1

\* C20: start_update_status enters its reporting loop for every interval: it
\* never leaves a spawned rotation task without a reporter loop.
C20_StartEntersLoop ==
  \A i \in Tasks : rot[i].pc # "none" => rep[i].pc \in {"tick", "http"}

\* C15: a report cycle never writes the store: the snapshot, the gate and
\* update_status with any outcome leave every field of the shared DeviceStatus
\* as it was.
C15_ReportNeverWritesStore ==
  [][(\E i \in Tasks : rep[i].pc \in {"tick", "http"} /\ rep'[i] # rep[i])
       => device' = device]_vars

C15_Witness ==
  /\ device.errors # <<>>
  /\ lastCall.method = "update_status"
  /\ lastCall.ret = "Err"
  /\ \E i \in Tasks : rep[i].cycle = "sent" /\ rep[i].pc = "tick" /\ rep[i].snap = device

StringFields == {"device_id", "device_owner", "device_version", "peer_id"}

NumberFields == {"peers_count", "best_block_number", "finalized_block_number", "uptime"}

SetterFields == StringFields \cup NumberFields \cup {"errors"}

\* The store got v in field f and kept every other field (or the lock was
\* poisoned and the caller panicked without writing).
Wrote(f, v) ==
  IF poisoned
  THEN device' = device
  ELSE /\ device'[f] = v
       /\ \A g \in (DOMAIN device) \ {f} : device'[g] = device[g]

SetString(f, v) ==
  CASE f = "device_id" -> set_device_id(v)
    [] f = "device_owner" -> set_device_owner(v)
    [] f = "device_version" -> set_device_version(v)
    [] f = "peer_id" -> set_peer_id(v)

SetNumber(f, v) ==
  CASE f = "peers_count" -> set_peers_count(v)
    [] f = "best_block_number" -> set_best_block_number(v)
    [] f = "finalized_block_number" -> set_finalized_block_number(v)
    [] f = "uptime" -> set_uptime(v)

\* C16: each single-field setter changes only its own field; a field changes
\* only by a call of its setter, and a snapshot copies the store as the
\* linearized writes left it, so a snapshot taken after a completed setter call
\* shows that call's value or a later write's (last writer wins).
C16_SettersWriteOwnField ==
  [][/\ \A f \in StringFields, v \in Strings : SetString(f, v) => Wrote(f, v)
     /\ \A f \in NumberFields, v \in Numbers : SetNumber(f, v) => Wrote(f, v)
     /\ \A v \in ErrorLists : set_errors(v) => Wrote("errors", v)
     /\ \A f \in StringFields :
          device'[f] # device[f] => \E v \in Strings : SetString(f, v) /\ device'[f] = v
     /\ \A f \in NumberFields :
          device'[f] # device[f] => \E v \in Numbers : SetNumber(f, v) /\ device'[f] = v
     /\ device'.errors # device.errors
          => \E v \in ErrorLists : set_errors(v) /\ device'.errors = v
     /\ \A i \in Tasks :
          (rep[i].pc = "tick" /\ rep'[i] # rep[i] /\ rep'[i].pc # "panicked")
            => \A f \in SetterFields : rep'[i].snap[f] = device[f]]_vars

C16_Witness ==
  /\ device.uptime = 1
  /\ device.peers_count = 0
  /\ device.device_id = "a"
  /\ Up[WindowLen] > 0
  /\ \E i \in Tasks :
       /\ rep[i].cycle = "sent"
       /\ rep[i].snap.uptime = 1
       /\ rep[i].snap.upload_bandwidth[WindowLen] > 0

\* C17: report cycles are strictly sequential: a loop has at most one
\* update_status request in flight, and while it is in flight the loop takes
\* no snapshot and starts no other request; its only step is the return of
\* that update_status call.
C17_CyclesSequential ==
  [][\A i \in Tasks :
       /\ Len(rep'[i].request) <= 1
       /\ rep'[i].request # <<>> <=> rep'[i].pc = "http"
       /\ rep[i].pc = "http" =>
            \/ rep'[i] = rep[i]
            \/ /\ rep'[i] = [rep[i] EXCEPT !.pc = "tick", !.request = <<>>]
               /\ lastCall'.method = "update_status"]_vars

C17_Witness ==
  \E i \in Tasks :
    /\ rep[i].pc = "http"
    /\ rep[i].snap # device
    /\ lastCall.method = "update_status"
    /\ rot[i].ticks > 0

Holds(h) == lock.writer = h \/ h \in lock.readers

\* C13: no task holds the store lock while suspended: the reporter loop has
\* dropped its read guard before the gate and the HTTP exchange, the rotation
\* task has dropped its write guard before it waits for its next tick; so when
\* only suspended tasks are around, a setter or add gets the lock at once.
C13_NoLockWhileSuspended ==
  /\ \A i \in Tasks : rep[i].pc \in {"tick", "http"} => ~Holds(Reporter(i))
  /\ \A i \in Tasks : rot[i].pc = "tick" => ~Holds(Rotator(i))
  /\ (/\ \A i \in Tasks : rep[i].pc \in {"none", "tick", "http", "want_read", "want_seed"}
      /\ \A i \in Tasks : rot[i].pc \in {"none", "tick", "want"}
      /\ \A c \in Callers : caller[c].pc # "holding")
       => CanWrite(lock)

C13_Witness ==
  \E i \in Tasks, c \in Callers :
    /\ rep[i].pc = "http"
    /\ rot[i].pc = "tick"
    /\ rot[i].ticks > 0
    /\ caller[c].pc = "holding"
    /\ lock.writer = Caller(c)

NoNestedRequest ==
  /\ \A c \in Callers : caller[c].pc = "want" => ~Holds(Caller(c))
  /\ \A i \in Tasks : rot[i].pc = "want" => ~Holds(Rotator(i))
  /\ \A i \in Tasks : rep[i].pc \in {"want_seed", "want_read"} => ~Holds(Reporter(i))

HolderCanRelease ==
  /\ \A c \in Callers : Holds(Caller(c)) => ENABLED caller_write(c)
  /\ \A i \in Tasks : Holds(Rotator(i)) => ENABLED (rotator_upload(i) \/ rotator_download(i))
  /\ \A i \in Tasks : Holds(Reporter(i)) =>
       ENABLED (start_seed_upload(i) \/ start_seed_download(i) \/ reporter_clone(i))

\* Some thread has asked for the lock and does not have it yet.
LockWaiting ==
  \/ \E c \in Callers : caller[c].pc = "want"
  \/ \E i \in Tasks : rot[i].pc = "want"
  \/ \E i \in Tasks : rep[i].pc \in {"want_seed", "want_read"}

\* C14: the core is deadlock-free: no thread asks for the store lock while it
\* holds it (the two acquisitions of set_monitor_sync_status included), whoever
\* holds the lock can go on to release it, and under fair scheduling every
\* request for the lock is granted: no thread waits for ever, so again and
\* again no request is outstanding.
C14_DeadlockFree ==
  /\ [](NoNestedRequest /\ HolderCanRelease)
  /\ []<>(~LockWaiting)

C14_Witness ==
  \E c \in Callers, i \in Tasks :
    /\ caller[c].pc = "want"
    /\ caller[c].op = "monitor_chains"
    /\ rot[i].pc = "want"
    /\ rep[i].pc = "reading"
    /\ lock.readers = {Reporter(i)}

\* C19: upload and download advance in lockstep: at every snapshot both
\* windows have undergone the same number of periodic rotations and the same
\* number of start-time tail resets.
C19_WindowsInLockstep ==
  \A i \in Tasks :
    /\ seen[i].upRotated = seen[i].downRotated
    /\ seen[i].upReset = seen[i].downReset

C19_Witness ==
  \E i \in Tasks :
    /\ rep[i].cycle # "none"
    /\ seen[i].upRotated = 1
    /\ seen[i].upReset = 1
    /\ rep[i].snap.upload_bandwidth[WindowLen - 1] > 0
====
